---- MODULE Spec2Model ----
(***************************************************************************)
(* World-clocks application: the time-zone helpers (cityFromZoneId,        *)
(* offsetMinutes, diffLabel, dayRelative, getAllZones) and the saved-list  *)
(* state of ClocksScreen (mount-time load, save on change, add, remove).   *)
(*                                                                         *)
(* Strings the code inspects character by character are sequences of      *)
(* one-character strings.  A Date is a record [day, ms]: days since        *)
(* 1970-01-01 and milliseconds within that UTC day, so that                *)
(* getTime() = day * 86400000 + ms without leaving TLC's integer range.    *)
(***************************************************************************)
EXTENDS Integers, Sequences, FiniteSets, TLC

VARIABLES
    \* ---- clock row (offsetMinutes / diffLabel / dayRelative) ----
    date,          \* the `now` state of ClocksScreen, a Date
    deviceZoneId,  \* what Intl.DateTimeFormat().resolvedOptions().timeZone gives
    targetZone,    \* the id of the row being rendered
    hourCycle,     \* how the runtime resolves hour12:false for en-US: "h23" or "h24"
    phase,         \* "init" before the first render, "rendered" after
    ticks,         \* minute ticks elapsed
    offset,        \* offsetMinutes(targetZone, date) at the last render
    label,         \* diffLabel(targetZone, date) at the last render
    rel,           \* dayRelative(targetZone, date) at the last render
    \* ---- catalog (getAllZones / cityFromZoneId) ----
    supportedValuesOf, \* "absent", "throws" or "returns"
    runtimeIds,    \* what Intl.supportedValuesOf('timeZone') returns when it returns
    catalog,       \* result of the last getAllZones() call
    catalogPrev,   \* result of the call before it
    calls,         \* number of getAllZones() calls made
    idArg,         \* argument of the last direct cityFromZoneId call
    cityOut,       \* its result
    \* ---- ClocksScreen saved list ----
    zones,         \* the `zones` state
    stored,        \* what AsyncStorage holds under STORAGE_KEY: [has, text]
    queue,         \* AsyncStorage operations issued and not yet performed, oldest first
    loadState,     \* "pending", "read" (getItem resolved, continuation not run), "done"
    raw,           \* what getItem resolved to: [has, text]
    alert,         \* the id the "Remove clock" alert asks about, "none" when not shown
    persisted0,    \* history: what AsyncStorage held when the screen mounted
    userKept,      \* history: ids the user added and did not remove afterwards
    lastOp         \* history: the last setZones call, with the list before it

clockVars == <<date, deviceZoneId, targetZone, hourCycle, phase, ticks, offset, label, rel>>
catalogVars == <<supportedValuesOf, runtimeIds, catalog, catalogPrev, calls, idArg, cityOut>>
screenVars == <<zones, stored, queue, loadState, raw, alert, persisted0, userKept, lastOp>>
vars == <<clockVars, catalogVars, screenVars>>

\* AsyncStorage's answer for a key: null, or the string stored (as JSON tokens).
NoItem == [has |-> FALSE, text |-> <<>>]

Item(text) == [has |-> TRUE, text |-> text]

\* ------------------------------------------------------------------------
\* Bounds of the model
\* ------------------------------------------------------------------------
MaxTicks == 1
MaxIdLen == 4
MaxCalls == 2
MaxQueue == 3
MaxRuntimeIds == 3
MaxPersisted == 2

\* ------------------------------------------------------------------------
\* Characters and numbers
\* ------------------------------------------------------------------------
Digits == <<"0", "1", "2", "3", "4", "5", "6", "7", "8", "9">>

\* U+2212 MINUS SIGN, the glyph diffLabel uses for a negative difference.
MinusGlyph == "U+2212"

DigitChar(n) == Digits[n + 1]

DigitVal(c) == CHOOSE d \in 0..9 : Digits[d + 1] = c

RECURSIVE NatToChars(_)
\* String(n) / template interpolation of a non-negative integer.
NatToChars(n) ==
    IF n < 10 THEN <<DigitChar(n)>>
    ELSE NatToChars(n \div 10) \o <<DigitChar(n % 10)>>

\* A '2-digit' field of Intl.DateTimeFormat.
Pad2(n) == IF n < 10 THEN <<"0">> \o NatToChars(n) ELSE NatToChars(n)

\* A 'numeric' year of Intl.DateTimeFormat (years 1000..9999).
Year4(n) == NatToChars(n)

RECURSIVE Number(_)
\* Number(s) for a string of decimal digits (leading zeros allowed).
Number(s) ==
    IF Len(s) = 0 THEN 0
    ELSE 10 * Number(SubSeq(s, 1, Len(s) - 1)) + DigitVal(s[Len(s)])

Abs(x) == IF x < 0 THEN -x ELSE x

\* The element of a one-element set.  { e(x) : x \in {v} } binds x to the
\* value of v, the way a const declaration does: v is computed once.
Only(S) == CHOOSE r \in S : TRUE

\* ------------------------------------------------------------------------
\* The time-zone rules database behind Intl.DateTimeFormat
\* ------------------------------------------------------------------------
MsPerDay == 86400000

\* 2024 rules: standard offset, daylight offset, and the UTC instants
\* between which the daylight offset applies (none: from = to).
ZoneRules ==
    [ id \in {"Etc/GMT+12", "America/Los_Angeles", "America/New_York", "America/St_Johns", "UTC",
              "Europe/London", "Asia/Kathmandu", "Asia/Tokyo", "Pacific/Kiritimati"} |->
        CASE id = "Etc/GMT+12" ->
               [std |-> -720, dst |-> -720, from |-> [day |-> 0, ms |-> 0], to |-> [day |-> 0, ms |-> 0]]
          [] id = "America/Los_Angeles" ->
               [std |-> -480, dst |-> -420, from |-> [day |-> 19792, ms |-> 36000000],
                                            to |-> [day |-> 20030, ms |-> 32400000]]
          [] id = "America/New_York" ->
               [std |-> -300, dst |-> -240, from |-> [day |-> 19792, ms |-> 25200000],
                                            to |-> [day |-> 20030, ms |-> 21600000]]
          [] id = "America/St_Johns" ->
               [std |-> -210, dst |-> -150, from |-> [day |-> 19792, ms |-> 19800000],
                                            to |-> [day |-> 20030, ms |-> 16200000]]
          [] id = "UTC" ->
               [std |-> 0, dst |-> 0, from |-> [day |-> 0, ms |-> 0], to |-> [day |-> 0, ms |-> 0]]
          [] id = "Europe/London" ->
               [std |-> 0, dst |-> 60, from |-> [day |-> 19813, ms |-> 3600000],
                                       to |-> [day |-> 20023, ms |-> 3600000]]
          [] id = "Asia/Kathmandu" ->
               [std |-> 345, dst |-> 345, from |-> [day |-> 0, ms |-> 0], to |-> [day |-> 0, ms |-> 0]]
          [] id = "Asia/Tokyo" ->
               [std |-> 540, dst |-> 540, from |-> [day |-> 0, ms |-> 0], to |-> [day |-> 0, ms |-> 0]]
          [] id = "Pacific/Kiritimati" ->
               [std |-> 840, dst |-> 840, from |-> [day |-> 0, ms |-> 0], to |-> [day |-> 0, ms |-> 0]] ]

ZoneIds == DOMAIN ZoneRules

Before(a, b) == a.day < b.day \/ (a.day = b.day /\ a.ms < b.ms)

\* The zone's UTC offset in minutes at instant d, per the rules database.
RuleOffset(timeZone, d) ==
    LET r == ZoneRules[timeZone]
    IN IF ~Before(d, r.from) /\ Before(d, r.to) THEN r.dst ELSE r.std

\* Proleptic Gregorian date of a day count since 1970-01-01.
CivilFromDays(z0) ==
    LET z   == z0 + 719468
        era == z \div 146097
        doe == z - era * 146097
        yoe == (doe - doe \div 1460 + doe \div 36524 - doe \div 146096) \div 365
        doy == doe - (365 * yoe + yoe \div 4 - yoe \div 100)
        mp  == (5 * doy + 2) \div 153
        d   == doy - (153 * mp + 2) \div 5 + 1
        m   == IF mp < 10 THEN mp + 3 ELSE mp - 9
        y   == yoe + era * 400 + (IF m <= 2 THEN 1 ELSE 0)
    IN [year |-> y, month |-> m, day |-> d]

\* Day count since 1970-01-01 of a proleptic Gregorian date.
DaysFromCivil(y0, m, d) ==
    LET y   == IF m <= 2 THEN y0 - 1 ELSE y0
        era == y \div 400
        yoe == y - era * 400
        mp  == IF m > 2 THEN m - 3 ELSE m + 9
        doy == (153 * mp + 2) \div 5 + d - 1
        doe == yoe * 365 + yoe \div 4 - yoe \div 100 + doy
    IN era * 146097 + doe - 719468

\* The zone-local wall clock at instant d: calendar date and time of day.
LocalFields(d, timeZone) ==
    Only({ Only({ [year |-> c.year, month |-> c.month, day |-> c.day,
                   hour |-> lms \div 3600000,
                   minute |-> (lms % 3600000) \div 60000,
                   second |-> (lms % 60000) \div 1000] :
                  c \in {CivilFromDays(d.day + local \div MsPerDay)},
                  lms \in {local % MsPerDay} }) :
           local \in {d.ms + RuleOffset(timeZone, d) * 60000} })

\* The hour field under the runtime's hour cycle: h23 counts 00..23,
\* h24 counts 01..24 and shows midnight as 24.
HourField(h, hc) == IF hc = "h24" /\ h = 0 THEN 24 ELSE h

\* Date.UTC(y, monthIndex, d, hh, mm, ss); out-of-range hours carry into the day.
DateUTC(y, monthIndex, d, hh, mm, ss) ==
    LET t == hh * 3600000 + mm * 60000 + ss * 1000
    IN [day |-> DaysFromCivil(y, monthIndex + 1, d) + t \div MsPerDay, ms |-> t % MsPerDay]

\* a.getTime() - b.getTime()
MsBetween(a, b) == (a.day - b.day) * MsPerDay + (a.ms - b.ms)

\* Math.round(x / 60000): nearest integer, halves toward +Infinity.
RoundMinutes(x) == (x + 30000) \div 60000

\* ------------------------------------------------------------------------
\* helpers/timezones: deviceZone, dayKey, offsetMinutes, diffLabel, dayRelative
\* ------------------------------------------------------------------------
deviceZone == deviceZoneId

\* "YYYY-MM-DD" from the en-CA year, month and day parts.
dayKey(d, timeZone) ==
    Only({ Year4(f.year) \o <<"-">> \o Pad2(f.month) \o <<"-">> \o Pad2(f.day) :
           f \in {LocalFields(d, timeZone)} })

\* The en-US parts of formatToParts, as the strings getNum reads.
OffsetParts(d, timeZone, hc) ==
    Only({ [year |-> Year4(f.year), month |-> Pad2(f.month), day |-> Pad2(f.day),
            hour |-> Pad2(HourField(f.hour, hc)), minute |-> Pad2(f.minute),
            second |-> Pad2(f.second)] :
           f \in {LocalFields(d, timeZone)} })

\* getNum over the six parts, then Date.UTC(y, m - 1, d, hh, mm, ss).
utcAsIf(parts) ==
    Only({ DateUTC(y, m - 1, dd, hh, mm, ss) :
           y \in {Number(parts.year)}, m \in {Number(parts.month)},
           dd \in {Number(parts.day)}, hh \in {Number(parts.hour)},
           mm \in {Number(parts.minute)}, ss \in {Number(parts.second)} })

offsetMinutes(timeZone, d) ==
    Only({ RoundMinutes(MsBetween(utcAsIf(parts), d)) :
           parts \in {OffsetParts(d, timeZone, hourCycle)} })

\* Mutant: the sign test excludes zero.
diffLabelStrictSign(tz, d) ==
    Only({ LET sign == IF diff > 0 THEN "+" ELSE MinusGlyph
               abs  == Abs(diff)
               h    == abs \div 60
               m    == abs % 60
           IN IF m # 0
              THEN <<sign>> \o NatToChars(h) \o <<"h", " ">> \o NatToChars(m) \o <<"m">>
              ELSE <<sign>> \o NatToChars(h) \o <<"h">> :
           diff \in {offsetMinutes(tz, d) - offsetMinutes(deviceZone, d)} })

\* Mutant: hours rounded to nearest instead of floored.
diffLabelRoundHours(tz, d) ==
    Only({ LET sign == IF diff >= 0 THEN "+" ELSE MinusGlyph
               abs  == Abs(diff)
               h    == (abs + 30) \div 60
               m    == abs % 60
           IN IF m # 0
              THEN <<sign>> \o NatToChars(h) \o <<"h", " ">> \o NatToChars(m) \o <<"m">>
              ELSE <<sign>> \o NatToChars(h) \o <<"h">> :
           diff \in {offsetMinutes(tz, d) - offsetMinutes(deviceZone, d)} })

diffLabel(tz, d) ==
    Only({ LET sign == IF diff >= 0 THEN "+" ELSE MinusGlyph
               abs  == Abs(diff)
               h    == abs \div 60
               m    == abs % 60
           IN IF m # 0
              THEN <<sign>> \o NatToChars(h) \o <<"h", " ">> \o NatToChars(m) \o <<"m">>
              ELSE <<sign>> \o NatToChars(h) \o <<"h">> :
           diff \in {offsetMinutes(tz, d) - offsetMinutes(deviceZone, d)} })

\* k.replace(/-/g, '') then Number.
toNum(k) == Number(SelectSeq(k, LAMBDA c : c # "-"))

\* Mutant: the device's key is taken in UTC instead of the device zone.
dayRelativeUtcDevice(tz, d) ==
    Only({ LET delta == toNum(target) - toNum(device)
           IN IF target = device THEN "Today"
              ELSE IF delta = 1 THEN "Tomorrow"
              ELSE IF delta = -1 THEN "Yesterday"
              ELSE IF delta > 0 THEN "Tomorrow" ELSE "Yesterday" :
           device \in {dayKey(d, "UTC")}, target \in {dayKey(d, tz)} })

\* Mutant: only a key difference of exactly +1 counts as Tomorrow.
dayRelativeExactOnly(tz, d) ==
    Only({ LET delta == toNum(target) - toNum(device)
           IN IF target = device THEN "Today"
              ELSE IF delta = 1 THEN "Tomorrow"
              ELSE "Yesterday" :
           device \in {dayKey(d, deviceZone)}, target \in {dayKey(d, tz)} })

dayRelative(tz, d) ==
    Only({ LET delta == toNum(target) - toNum(device)
           IN IF target = device THEN "Today"
              ELSE IF delta = 1 THEN "Tomorrow"
              ELSE IF delta = -1 THEN "Yesterday"
              ELSE IF delta > 0 THEN "Tomorrow" ELSE "Yesterday" :
           device \in {dayKey(d, deviceZone)}, target \in {dayKey(d, tz)} })

\* ------------------------------------------------------------------------
\* One clock row of ClocksScreen: first render, then a re-render per tick
\* ------------------------------------------------------------------------
\* 2023-12-31, 2024-01-15, 2024-02-29, 2024-06-16
BaseDays == {19722, 19737, 19782, 19890}

Instants ==
    { [day |-> dy, ms |-> h * 3600000 + mi * 60000 + sub] :
        dy \in BaseDays, h \in 0..23, mi \in {0, 30}, sub \in {0, 59999} }

\* setInterval(() => setNow(new Date()), 60000)
AddMinute(d) ==
    IF d.ms + 60000 >= MsPerDay THEN [day |-> d.day + 1, ms |-> d.ms + 60000 - MsPerDay]
    ELSE [day |-> d.day, ms |-> d.ms + 60000]

\* The catalog before any getAllZones() call.
NoCatalog == [threw |-> FALSE, items |-> <<>>]

IdleCatalog ==
    /\ supportedValuesOf = "absent" /\ runtimeIds = <<>> /\ catalog = NoCatalog
    /\ catalogPrev = NoCatalog /\ calls = 0 /\ idArg = <<>> /\ cityOut = <<>>

IdleScreen ==
    /\ zones = <<>> /\ stored = NoItem /\ queue = <<>> /\ loadState = "done"
    /\ raw = NoItem /\ alert = "none" /\ persisted0 = NoItem /\ userKept = {}
    /\ lastOp = [op |-> "none", id |-> "none", before |-> <<>>]

IdleClock ==
    /\ date = [day |-> 0, ms |-> 0] /\ deviceZoneId = "UTC" /\ targetZone = "UTC"
    /\ hourCycle = "h23" /\ phase = "init" /\ ticks = 0 /\ offset = 0
    /\ label = <<>> /\ rel = "Today"

InitClock ==
    /\ date \in Instants
    /\ deviceZoneId \in ZoneIds
    /\ targetZone \in ZoneIds
    /\ hourCycle \in {"h23", "h24"}
    /\ phase = "init" /\ ticks = 0 /\ offset = 0 /\ label = <<>> /\ rel = "Today"
    /\ IdleCatalog /\ IdleScreen

\* renderItem for the row: diffLabel(id, now), dayRelative(id, now).
RenderRow ==
    /\ phase = "init"
    /\ phase' = "rendered"
    /\ offset' = offsetMinutes(targetZone, date)
    /\ label' = diffLabel(targetZone, date)
    /\ rel' = dayRelative(targetZone, date)
    /\ UNCHANGED <<date, deviceZoneId, targetZone, hourCycle, ticks>>
    /\ UNCHANGED <<catalogVars, screenVars>>

\* The minute tick: setNow, then the row renders again with the new instant.
Tick ==
    /\ phase = "rendered"
    /\ ticks < MaxTicks
    /\ ticks' = ticks + 1
    /\ date' = AddMinute(date)
    /\ offset' = offsetMinutes(targetZone, date')
    /\ label' = diffLabel(targetZone, date')
    /\ rel' = dayRelative(targetZone, date')
    /\ UNCHANGED <<deviceZoneId, targetZone, hourCycle, phase>>
    /\ UNCHANGED <<catalogVars, screenVars>>

NextClock == RenderRow \/ Tick

SpecClock == InitClock /\ [][NextClock]_vars

\* ------------------------------------------------------------------------
\* Properties of the clock row
\* ------------------------------------------------------------------------
\* The zone-local day count, straight from the rules database.
LocalDayNumber(timeZone, d) == d.day + (d.ms + RuleOffset(timeZone, d) * 60000) \div MsPerDay

\* Reading a label back: sign, hours before "h", and the optional " <m>m" part.
ParseLabel(l) ==
    LET ih == CHOOSE i \in 1..Len(l) : l[i] = "h"
    IN [sign   |-> l[1],
        h      |-> Number(SubSeq(l, 2, ih - 1)),
        hasMin |-> Len(l) > ih,
        m      |-> IF Len(l) > ih THEN Number(SubSeq(l, ih + 2, Len(l) - 1)) ELSE 0,
        shape  |-> /\ \E i \in 1..Len(l) : l[i] = "h"
                   /\ ih > 2
                   /\ (Len(l) > ih => (Len(l) > ih + 2 /\ l[ih + 1] = " " /\ l[Len(l)] = "m"))]

\* C1: for every zone and instant the value offsetMinutes returns lies in
\* [-720, 840] (it is an integer by construction of RoundMinutes).
C1_OffsetInRange == phase = "rendered" => offset \in -720..840

\* C2: diffLabel(deviceZone(), t) is exactly "+0h".
C2_SelfLabelIsPlusZero ==
    (phase = "rendered" /\ targetZone = deviceZone) => label = <<"+", "0", "h">>

C2_Witness ==
    /\ phase = "rendered" /\ targetZone = deviceZone /\ ticks = 1
    /\ targetZone = "Asia/Kathmandu" /\ date.ms % 60000 # 0
    /\ label = <<"+", "0", "h">>

\* C3: dayRelative(deviceZone(), t) is Today.
C3_SelfDayIsToday ==
    (phase = "rendered" /\ targetZone = deviceZone) => rel = "Today"

C3_Witness ==
    /\ phase = "rendered" /\ targetZone = deviceZone
    /\ targetZone = "Pacific/Kiritimati"
    /\ LocalDayNumber(targetZone, date) # date.day
    /\ rel = "Today"

\* C4: with diff = offsetMinutes(target, t) - offsetMinutes(deviceZone(), t), the
\* label's sign is "+" iff diff >= 0 (the minus glyph otherwise), its hour part
\* is floor(|diff| / 60), its minute part is |diff| mod 60, and the minute part
\* is shown iff it is not 0; diff = 840 gives "+14h", diff = -150 gives
\* "<minus>2h 30m".
C4_LabelDecomposesDiff ==
    phase = "rendered" =>
        LET diff == offset - offsetMinutes(deviceZone, date)
            p    == ParseLabel(label)
        IN /\ p.shape
           /\ p.sign = (IF diff >= 0 THEN "+" ELSE MinusGlyph)
           /\ p.h = Abs(diff) \div 60
           /\ p.m = Abs(diff) % 60
           /\ 60 * p.h + p.m = Abs(diff)
           /\ p.m \in 0..59
           /\ p.hasMin <=> (p.m # 0)
           /\ (diff = 840 => label = <<"+", "1", "4", "h">>)
           /\ (diff = -150 => label = <<MinusGlyph, "2", "h", " ", "3", "0", "m">>)

\* New York against Tokyo on 2024-01-15T12:00:00Z.
C4_Witness ==
    /\ phase = "rendered"
    /\ deviceZone = "America/New_York" /\ targetZone = "Asia/Tokyo"
    /\ date = [day |-> 19737, ms |-> 43200000]
    /\ offsetMinutes("America/New_York", date) = -300
    /\ offset = 540
    /\ label = <<"+", "1", "4", "h">>

\* C9: dayRelative is Today exactly when the two zone-local dates are equal,
\* Tomorrow exactly when the target's date is later than the device's, and
\* Yesterday exactly when it is earlier, across month and year ends too.
C9_DayRelativeIsCalendarOrder ==
    phase = "rendered" =>
        LET dev == LocalDayNumber(deviceZone, date)
            tgt == LocalDayNumber(targetZone, date)
        IN /\ (rel = "Today") <=> (tgt = dev)
           /\ (rel = "Tomorrow") <=> (tgt > dev)
           /\ (rel = "Yesterday") <=> (tgt < dev)

\* Device on 2023-12-31, target on 2024-01-01.
C9_Witness ==
    /\ phase = "rendered"
    /\ dayKey(date, deviceZone) = <<"2", "0", "2", "3", "-", "1", "2", "-", "3", "1">>
    /\ dayKey(date, targetZone) = <<"2", "0", "2", "4", "-", "0", "1", "-", "0", "1">>
    /\ rel = "Tomorrow"

\* ------------------------------------------------------------------------
\* helpers/timezones: cityFromZoneId, getAllZones
\* ------------------------------------------------------------------------
Undefined == "undefined"

RECURSIVE Split(_, _)
\* id.split(sep): the pieces between separators; always at least one piece.
Split(str, sep) ==
    IF \A i \in 1..Len(str) : str[i] # sep THEN <<str>>
    ELSE LET k == CHOOSE i \in 1..Len(str) : str[i] = sep /\ \A j \in 1..(i - 1) : str[j] # sep
         IN <<SubSeq(str, 1, k - 1)>> \o Split(SubSeq(str, k + 1, Len(str)), sep)

\* last.replace(/_/g, ' ')
ReplaceAllUnderscores(str) == [i \in 1..Len(str) |-> IF str[i] = "_" THEN " " ELSE str[i]]

\* last.replace('_', ' '): the first underscore only.
ReplaceFirstUnderscore(str) ==
    [i \in 1..Len(str) |->
        IF str[i] = "_" /\ \A j \in 1..(i - 1) : str[j] # "_" THEN " " ELSE str[i]]

\* Mutant: the replacement lacks the g flag.
cityFromZoneIdFirstOnly(id) ==
    LET pieces == Split(id, "/")
        \* pop() ?? id: pop gives undefined only for an empty array
        last   == IF Len(pieces) = 0 THEN id ELSE pieces[Len(pieces)]
    IN ReplaceFirstUnderscore(last)

cityFromZoneId(id) ==
    LET pieces == Split(id, "/")
        \* pop() ?? id: pop gives undefined only for an empty array
        last   == IF Len(pieces) = 0 THEN id ELSE pieces[Len(pieces)]
    IN ReplaceAllUnderscores(last)

\* Zone ids of the model, as character sequences.
IdKentuckyLouisville ==
    <<"A", "m", "e", "r", "i", "c", "a", "/", "K", "e", "n", "t", "u", "c",
      "k", "y", "/", "L", "o", "u", "i", "s", "v", "i", "l", "l", "e">>
IdLouisville ==
    <<"A", "m", "e", "r", "i", "c", "a", "/", "L", "o", "u", "i", "s", "v",
      "i", "l", "l", "e">>
IdNewYork ==
    <<"A", "m", "e", "r", "i", "c", "a", "/", "N", "e", "w", "_", "Y", "o",
      "r", "k">>
IdHoChiMinh ==
    <<"A", "s", "i", "a", "/", "H", "o", "_", "C", "h", "i", "_", "M", "i",
      "n", "h">>
IdTokyo == <<"A", "s", "i", "a", "/", "T", "o", "k", "y", "o">>
IdUTC == <<"U", "T", "C">>
IdTroll ==
    <<"A", "n", "t", "a", "r", "c", "t", "i", "c", "a", "/", "T", "r", "o",
      "l", "l">>
IdBuenosAires ==
    <<"A", "m", "e", "r", "i", "c", "a", "/", "A", "r", "g", "e", "n", "t",
      "i", "n", "a", "/", "B", "u", "e", "n", "o", "s", "_", "A", "i", "r", "e", "s">>

\* @vvo/tzdb timeZonesNames: the bundled id list, duplicate-free.
timeZonesNames ==
    <<IdKentuckyLouisville, IdLouisville, IdNewYork, IdHoChiMinh, IdTokyo, IdUTC>>

\* @vvo/tzdb getTimeZones(): one record per main zone; aliases and UTC have none.
tzMeta ==
    << [name |-> IdKentuckyLouisville, countryName |-> "United States"],
       [name |-> IdNewYork, countryName |-> "United States"],
       [name |-> IdHoChiMinh, countryName |-> "Vietnam"],
       [name |-> IdTokyo, countryName |-> "Japan"],
       [name |-> IdTroll, countryName |-> "Antarctica"] >>

\* Ids Intl.supportedValuesOf('timeZone') may list.
RuntimePool == {IdLouisville, IdNewYork, IdHoChiMinh, IdTokyo, IdUTC, IdTroll}

\* new Map(tzMeta.map(z => [z.name, z])).has(id)
enrichHas(id) == \E i \in 1..Len(tzMeta) : tzMeta[i].name = id

\* new Map(tzMeta.map(z => [z.name, z])).get(id): the last record of that name.
enrichGet(id) ==
    tzMeta[CHOOSE i \in 1..Len(tzMeta) :
              tzMeta[i].name = id /\ \A j \in (i + 1)..Len(tzMeta) : tzMeta[j].name # id]

LowerCase ==
    <<"a", "b", "c", "d", "e", "f", "g", "h", "i", "j", "k", "l", "m", "n",
      "o", "p", "q", "r", "s", "t", "u", "v", "w", "x", "y", "z">>
UpperCase ==
    <<"A", "B", "C", "D", "E", "F", "G", "H", "I", "J", "K", "L", "M", "N",
      "O", "P", "Q", "R", "S", "T", "U", "V", "W", "X", "Y", "Z">>

\* Primary collation weight of a character: space, then punctuation, then
\* digits, then letters with both cases alike.
PrimaryWeight(c) ==
    IF c = " " THEN 1
    ELSE IF c = "_" THEN 2
    ELSE IF c = "-" THEN 3
    ELSE IF c = "/" THEN 4
    ELSE IF \E d \in 1..10 : Digits[d] = c THEN 10 + DigitVal(c)
    ELSE IF \E k \in 1..26 : LowerCase[k] = c THEN 20 + (CHOOSE k \in 1..26 : LowerCase[k] = c)
    ELSE IF \E k \in 1..26 : UpperCase[k] = c THEN 20 + (CHOOSE k \in 1..26 : UpperCase[k] = c)
    ELSE 50

IsUpper(c) == \E k \in 1..26 : UpperCase[k] = c

RECURSIVE CompareFrom(_, _, _)
\* Lexicographic three-way comparison of two weight sequences from index i on.
CompareFrom(x, y, i) ==
    IF i > Len(x) /\ i > Len(y) THEN 0
    ELSE IF i > Len(x) THEN -1
    ELSE IF i > Len(y) THEN 1
    ELSE IF x[i] < y[i] THEN -1
    ELSE IF x[i] > y[i] THEN 1
    ELSE CompareFrom(x, y, i + 1)

CaseWeight(c) == IF IsUpper(c) THEN 1 ELSE 0

\* a.localeCompare(b): primary weights first, case (lower before upper) to break ties.
localeCompare(a, b) ==
    LET primary == CompareFrom([i \in 1..Len(a) |-> PrimaryWeight(a[i])],
                               [i \in 1..Len(b) |-> PrimaryWeight(b[i])], 1)
    IN IF primary # 0 THEN primary
       ELSE CompareFrom([i \in 1..Len(a) |-> CaseWeight(a[i])],
                        [i \in 1..Len(b) |-> CaseWeight(b[i])], 1)

RECURSIVE InsertSorted(_, _)
\* Insert item after every element that does not compare greater than it.
InsertSorted(sorted, item) ==
    IF Len(sorted) = 0 THEN <<item>>
    ELSE IF localeCompare(sorted[Len(sorted)].city, item.city) <= 0 THEN Append(sorted, item)
    ELSE Append(InsertSorted(SubSeq(sorted, 1, Len(sorted) - 1), item), sorted[Len(sorted)])

RECURSIVE SortByCity(_)
\* items.sort((a, b) => a.city.localeCompare(b.city)): a stable sort.
SortByCity(items) ==
    IF Len(items) = 0 THEN <<>>
    ELSE InsertSorted(SortByCity(SubSeq(items, 1, Len(items) - 1)), items[Len(items)])

\* The call supportedValuesOf('timeZone') where the function exists: it
\* throws or returns the runtime's list.
CallSupportedValuesOf == [threw |-> supportedValuesOf = "throws", value |-> runtimeIds]

\* ids.map(id => ({ id, city, country: meta?.countryName }))
BuildItems(ids) ==
    [i \in 1..Len(ids) |->
        [id |-> ids[i],
         city |-> cityFromZoneId(ids[i]),
         country |-> IF enrichHas(ids[i]) THEN enrichGet(ids[i]).countryName ELSE Undefined]]

\* Mutant: the call is not wrapped in try/catch, so its exception leaves getAllZones.
getAllZonesNoCatch ==
    LET isFunction == supportedValuesOf # "absent"
        ids        == IF isFunction THEN CallSupportedValuesOf.value ELSE timeZonesNames
    IN IF isFunction /\ CallSupportedValuesOf.threw THEN [threw |-> TRUE, items |-> <<>>]
       ELSE [threw |-> FALSE, items |-> SortByCity(BuildItems(ids))]

\* Mutant: the items are returned in source order, the sort forgotten.
getAllZonesUnsorted ==
    LET isFunction == supportedValuesOf # "absent"
        assigned   == isFunction /\ ~CallSupportedValuesOf.threw
        ids        == IF assigned THEN CallSupportedValuesOf.value ELSE timeZonesNames
    IN [threw |-> FALSE, items |-> BuildItems(ids)]

\* The outcome of a call: whether an exception left it, and the list returned.
getAllZones ==
    LET isFunction == supportedValuesOf # "absent"
        \* ids is assigned in the try block unless the call throws
        assigned   == isFunction /\ ~CallSupportedValuesOf.threw
        \* if (!ids) ids = timeZonesNames: an array, even empty, is truthy
        ids        == IF assigned THEN CallSupportedValuesOf.value ELSE timeZonesNames
    IN [threw |-> FALSE, items |-> SortByCity(BuildItems(ids))]

\* ------------------------------------------------------------------------
\* Building the catalog: useMemo(() => getAllZones(), [])
\* ------------------------------------------------------------------------
RECURSIVE DistinctSeqs(_, _)
\* The duplicate-free sequences over S of length at most n.
DistinctSeqs(S, n) ==
    IF n = 0 THEN {<<>>}
    ELSE LET shorter == DistinctSeqs(S, n - 1)
         IN shorter \cup
            UNION { { Append(q, e) : e \in { e0 \in S : \A i \in 1..Len(q) : q[i] # e0 } } :
                    q \in shorter }

InitCatalog ==
    /\ supportedValuesOf \in {"absent", "throws", "returns"}
    /\ runtimeIds \in DistinctSeqs(RuntimePool, MaxRuntimeIds)
    /\ catalog = NoCatalog /\ catalogPrev = NoCatalog /\ calls = 0
    /\ idArg = <<>> /\ cityOut = <<>>
    /\ IdleClock /\ IdleScreen

CallGetAllZones ==
    /\ calls < MaxCalls
    /\ calls' = calls + 1
    /\ catalogPrev' = catalog
    /\ catalog' = getAllZones
    /\ UNCHANGED <<supportedValuesOf, runtimeIds, idArg, cityOut>>
    /\ UNCHANGED <<clockVars, screenVars>>

NextCatalog == CallGetAllZones

SpecCatalog == InitCatalog /\ [][NextCatalog]_vars

\* ------------------------------------------------------------------------
\* cityFromZoneId on arbitrary strings
\* ------------------------------------------------------------------------
IdAlphabet == {"a", "B", "/", "_"}

RECURSIVE StringsUpTo(_)
StringsUpTo(n) ==
    IF n = 0 THEN {<<>>}
    ELSE StringsUpTo(n - 1) \cup { Append(q, c) : q \in StringsUpTo(n - 1), c \in IdAlphabet }

InitCity ==
    /\ idArg \in StringsUpTo(MaxIdLen) \cup RuntimePool \cup {IdKentuckyLouisville, IdBuenosAires}
    /\ cityOut = <<>> /\ calls = 0
    /\ supportedValuesOf = "absent" /\ runtimeIds = <<>> /\ catalog = NoCatalog /\ catalogPrev = NoCatalog
    /\ IdleClock /\ IdleScreen

CallCityFromZoneId ==
    /\ calls = 0
    /\ calls' = 1
    /\ cityOut' = cityFromZoneId(idArg)
    /\ UNCHANGED <<supportedValuesOf, runtimeIds, catalog, catalogPrev, idArg>>
    /\ UNCHANGED <<clockVars, screenVars>>

NextCity == CallCityFromZoneId

SpecCity == InitCity /\ [][NextCity]_vars

\* ------------------------------------------------------------------------
\* Properties of the catalog and of cityFromZoneId
\* ------------------------------------------------------------------------
\* The id list getAllZones is specified to start from.
ChosenSource == IF supportedValuesOf = "returns" THEN runtimeIds ELSE timeZonesNames

Range(q) == { q[i] : i \in 1..Len(q) }

\* C5: no enumeration failure leaves getAllZones; with the facility absent or
\* throwing the catalog holds the bundled ids, and with it returning a list the
\* catalog holds that list's ids and not the bundled ones.
C5_EnumerationFailureAbsorbed ==
    calls > 0 =>
        /\ ~catalog.threw
        /\ Len(catalog.items) = Len(ChosenSource)
        /\ { catalog.items[i].id : i \in 1..Len(catalog.items) } = Range(ChosenSource)
        /\ (supportedValuesOf = "returns" =>
                { catalog.items[i].id : i \in 1..Len(catalog.items) } # Range(timeZonesNames))

C5_Witness ==
    /\ calls > 0 /\ supportedValuesOf = "throws" /\ Len(runtimeIds) = 2
    /\ ~catalog.threw
    /\ { catalog.items[i].id : i \in 1..Len(catalog.items) } = Range(timeZonesNames)

\* C6: the returned list is sorted ascending by city, holds exactly one entry
\* per id of the chosen source list with city = cityFromZoneId(id) and country
\* from the metadata table or absent, and a second call returns the same list.
C6_CatalogSortedAndComplete ==
    calls > 0 =>
        LET items == catalog.items
        IN /\ \A i, j \in 1..Len(items) :
                  i < j => localeCompare(items[i].city, items[j].city) <= 0
           /\ Len(items) = Len(ChosenSource)
           /\ \A k \in 1..Len(ChosenSource) :
                  Cardinality({ i \in 1..Len(items) : items[i].id = ChosenSource[k] }) = 1
           /\ \A i \in 1..Len(items) :
                  /\ items[i].city = cityFromZoneId(items[i].id)
                  /\ \/ /\ items[i].country = Undefined
                        /\ \A n \in 1..Len(tzMeta) : tzMeta[n].name # items[i].id
                     \/ \E n \in 1..Len(tzMeta) :
                            /\ tzMeta[n].name = items[i].id
                            /\ tzMeta[n].countryName = items[i].country
           /\ (calls >= 2 => catalog = catalogPrev)

\* The bundled list, built twice: Ho Chi Minh, Louisville (twice, in source
\* order), New York, Tokyo, UTC.
C6_Witness ==
    /\ calls = 2 /\ supportedValuesOf = "absent"
    /\ Len(catalog.items) = 6
    /\ catalog.items[1].id = IdHoChiMinh
    /\ catalog.items[1].city = <<"H", "o", " ", "C", "h", "i", " ", "M", "i", "n", "h">>
    /\ catalog.items[1].country = "Vietnam"
    /\ catalog.items[2].id = IdKentuckyLouisville
    /\ catalog.items[3].id = IdLouisville
    /\ catalog.items[3].country = Undefined
    /\ catalog.items[4].id = IdNewYork
    /\ catalog.items[5].id = IdTokyo
    /\ catalog.items[6].id = IdUTC
    /\ catalog = catalogPrev

\* Index of the last '/' of str, 0 when it has none.
LastSlash(str) ==
    IF \E i \in 1..Len(str) : str[i] = "/"
    THEN CHOOSE i \in 1..Len(str) : str[i] = "/" /\ \A j \in (i + 1)..Len(str) : str[j] # "/"
    ELSE 0

\* C7: for every string id, cityFromZoneId returns the part of id after its
\* last '/' (all of id without one) with each underscore turned into a space;
\* the result holds no '/' and no '_'.
C7_CityIsLastSegment ==
    calls = 1 =>
        LET tail == SubSeq(idArg, LastSlash(idArg) + 1, Len(idArg))
        IN /\ Len(cityOut) = Len(tail)
           /\ \A i \in 1..Len(tail) : cityOut[i] = (IF tail[i] = "_" THEN " " ELSE tail[i])
           /\ \A i \in 1..Len(cityOut) : cityOut[i] \notin {"/", "_"}
           /\ (idArg = IdBuenosAires => cityOut = 
                 <<"B", "u", "e", "n", "o", "s", " ", "A", "i", "r", "e", "s">>)
           /\ (idArg = IdUTC => cityOut = IdUTC)

C7_Witness ==
    /\ calls = 1 /\ idArg = IdBuenosAires
    /\ cityOut = 
                 <<"B", "u", "e", "n", "o", "s", " ", "A", "i", "r", "e", "s">>

\* ------------------------------------------------------------------------
\* ClocksScreen: the saved list, its load on mount and its save on change
\* ------------------------------------------------------------------------
\* Ids the add modal offers (ids of the catalog).
SavedIds == {"UTC", "Asia/Tokyo", "Europe/London"}

RECURSIVE JSONstringify(_)
\* JSON.stringify of an array of ids, as tokens: [ id , id ... ]
JSONstringify(list) ==
    IF Len(list) = 0 THEN <<"[", "]">>
    ELSE IF Len(list) = 1 THEN <<"[", list[1], "]">>
    ELSE LET rest == JSONstringify(SubSeq(list, 1, Len(list) - 1))
         IN SubSeq(rest, 1, Len(rest) - 1) \o <<",", list[Len(list)], "]">>

\* Whether the tokens are a well-formed array: [ ] or [ id (, id)* ].
WellFormed(text) ==
    /\ Len(text) >= 2 /\ text[1] = "[" /\ text[Len(text)] = "]"
    /\ (Len(text) > 2 => Len(text) % 2 = 1)
    /\ \A i \in 2..(Len(text) - 1) :
           IF i % 2 = 0 THEN text[i] \notin {"[", "]", ","} ELSE text[i] = ","

\* JSON.parse: throws on malformed text, else the array of ids.
JSONparse(text) ==
    IF WellFormed(text)
    THEN [threw |-> FALSE,
          value |-> [k \in 1..((Len(text) - 1) \div 2) |-> text[2 * k]]]
    ELSE [threw |-> TRUE, value |-> <<>>]

\* Mutant: an id already present is appended again.
addUpdaterNoCheck(prev, id) == Append(prev, id)

\* prev => (prev.includes(id) ? prev : [...prev, id])
addUpdater(prev, id) ==
    IF \E i \in 1..Len(prev) : prev[i] = id THEN prev ELSE Append(prev, id)

\* prev => prev.filter(z => z !== id)
removeUpdater(prev, id) == SelectSeq(prev, LAMBDA z : z # id)

\* The save effect: AsyncStorage.setItem(STORAGE_KEY, JSON.stringify(zones)).
SaveOp(list) == [op |-> "set", text |-> JSONstringify(list)]

\* The load effect's AsyncStorage.getItem(STORAGE_KEY).
LoadOp == [op |-> "get", text |-> <<>>]

\* After mount: zones is [deviceZone()], the load effect has issued its getItem
\* and the save effect its first setItem, in that order.
InitScreen ==
    /\ IdleClock /\ IdleCatalog
    /\ persisted0 \in {NoItem} \cup
           { Item(JSONstringify(l)) : l \in DistinctSeqs(SavedIds, MaxPersisted) }
    /\ stored = persisted0
    /\ zones = <<deviceZone>>
    /\ queue = <<LoadOp, SaveOp(<<deviceZone>>)>>
    /\ loadState = "pending"
    /\ raw = NoItem
    /\ alert = "none"
    /\ userKept = {}
    /\ lastOp = [op |-> "none", id |-> "none", before |-> <<>>]

\* AsyncStorage performs the oldest operation issued: a getItem resolves with
\* what is stored, a setItem replaces it.
StoragePerform ==
    /\ Len(queue) > 0
    /\ queue' = Tail(queue)
    /\ IF Head(queue).op = "get"
       THEN /\ raw' = stored
            /\ loadState' = "read"
            /\ UNCHANGED stored
       ELSE /\ stored' = Item(Head(queue).text)
            /\ UNCHANGED <<raw, loadState>>
    /\ UNCHANGED <<zones, alert, persisted0, userKept, lastOp>>
    /\ UNCHANGED <<clockVars, catalogVars>>

\* The zones state after the load effect's continuation.
LoadedZones ==
    IF raw.has
    THEN (IF JSONparse(raw.text).threw THEN zones ELSE JSONparse(raw.text).value)
    ELSE <<deviceZone>>

\* The continuation after `await getItem`: setZones(JSON.parse(raw)), or
\* setZones([deviceZone()]) on a first run; the new array then triggers a save.
LoadContinue ==
    /\ loadState = "read"
    /\ loadState' = "done"
    /\ zones' = LoadedZones
    /\ IF raw.has /\ JSONparse(raw.text).threw
       THEN UNCHANGED <<queue, lastOp>>
       ELSE /\ queue' = Append(queue, SaveOp(zones'))
            /\ lastOp' = [op |-> "load", id |-> "none", before |-> zones]
    /\ UNCHANGED <<stored, raw, alert, persisted0, userKept>>
    /\ UNCHANGED <<clockVars, catalogVars>>

\* addZone(id) from the modal; an id already in the list keeps the same array,
\* so nothing renders and nothing is saved.
AddZone(id) ==
    /\ alert = "none"
    /\ Len(queue) < MaxQueue
    /\ zones' = addUpdater(zones, id)
    /\ queue' = IF zones' = zones THEN queue ELSE Append(queue, SaveOp(zones'))
    /\ userKept' = userKept \cup {id}
    /\ lastOp' = [op |-> "add", id |-> id, before |-> zones]
    /\ UNCHANGED <<stored, loadState, raw, alert, persisted0>>
    /\ UNCHANGED <<clockVars, catalogVars>>

\* removeZone(id) on a long press of a row: the alert is shown.
RemoveZone(id) ==
    /\ alert = "none"
    /\ \E i \in 1..Len(zones) : zones[i] = id
    /\ alert' = id
    /\ UNCHANGED <<zones, stored, queue, loadState, raw, persisted0, userKept, lastOp>>
    /\ UNCHANGED <<clockVars, catalogVars>>

\* The alert's Remove button: filter always makes a new array, which is saved.
ConfirmRemove ==
    /\ alert # "none"
    /\ Len(queue) < MaxQueue
    /\ zones' = removeUpdater(zones, alert)
    /\ queue' = Append(queue, SaveOp(zones'))
    /\ userKept' = userKept \ {alert}
    /\ lastOp' = [op |-> "remove", id |-> alert, before |-> zones]
    /\ alert' = "none"
    /\ UNCHANGED <<stored, loadState, raw, persisted0>>
    /\ UNCHANGED <<clockVars, catalogVars>>

\* The alert's Cancel button.
CancelRemove ==
    /\ alert # "none"
    /\ alert' = "none"
    /\ UNCHANGED <<zones, stored, queue, loadState, raw, persisted0, userKept, lastOp>>
    /\ UNCHANGED <<clockVars, catalogVars>>

NextScreen ==
    \/ StoragePerform
    \/ LoadContinue
    \/ \E id \in SavedIds : AddZone(id)
    \/ \E id \in SavedIds : RemoveZone(id)
    \/ ConfirmRemove
    \/ CancelRemove

SpecScreen == InitScreen /\ [][NextScreen]_vars

\* ------------------------------------------------------------------------
\* Properties of the saved list
\* ------------------------------------------------------------------------
NoDuplicates(q) == \A i, j \in 1..Len(q) : q[i] = q[j] => i = j

\* Position of e in a duplicate-free sequence that holds it.
IndexOf(q, e) == CHOOSE i \in 1..Len(q) : q[i] = e

\* C8: the saved list never holds an id twice and keeps insertion order:
\* adding an id already present leaves it unchanged, adding a new id appends it
\* at the end, and a confirmed removal deletes that id alone and keeps the
\* relative order of the others.
C8_SavedListUniqueInOrder ==
    /\ NoDuplicates(zones)
    /\ lastOp.op = "add" =>
          IF lastOp.id \in Range(lastOp.before)
          THEN zones = lastOp.before
          ELSE /\ Len(zones) = Len(lastOp.before) + 1
               /\ zones[Len(zones)] = lastOp.id
               /\ \A i \in 1..Len(lastOp.before) : zones[i] = lastOp.before[i]
    /\ lastOp.op = "remove" =>
          /\ Range(zones) = Range(lastOp.before) \ {lastOp.id}
          /\ \A i, j \in 1..Len(zones) :
                 i < j => IndexOf(lastOp.before, zones[i]) < IndexOf(lastOp.before, zones[j])

\* Tokyo, London restored from storage, UTC added at the end, then London
\* removed from the middle.
C8_Witness ==
    /\ lastOp.op = "remove" /\ lastOp.id = "Europe/London"
    /\ lastOp.before = <<"Asia/Tokyo", "Europe/London", "UTC">>
    /\ zones = <<"Asia/Tokyo", "UTC">>
    /\ persisted0 = Item(<<"[", "Asia/Tokyo", ",", "Europe/London", "]">>)

\* C10: under every interleaving of the mount-time load, the saves and the
\* user's actions: (a) on a first launch the list the load leaves is
\* [deviceZone()]; (b) the load reads what the earlier session persisted, not
\* the initial state saved at mount, and restores it; (c) a zone the user
\* added and did not remove is in the saved list; (d) with no write pending
\* and the load done, storage holds the saved list.
C10_LoadSaveRace ==
    /\ (~persisted0.has /\ lastOp.op \in {"none", "load"}) => zones = <<deviceZone>>
    /\ loadState \in {"read", "done"} => raw = persisted0
    /\ (persisted0.has /\ lastOp.op = "load") => JSONstringify(zones) = persisted0.text
    /\ userKept \subseteq Range(zones)
    /\ (queue = <<>> /\ loadState = "done") => stored = Item(JSONstringify(zones))

====
